---- MODULE Spec2Model ----
(***************************************************************************)
(* Model of pma::VtxCandidate (RecoAlg/PMAlg/PmaVtxCandidate.cxx): the     *)
(* candidate for a 3D vertex of the Projection Matching Algorithm, its     *)
(* incremental builder (Add), merge (MergeWith), fit (Compute,             *)
(* ComputeMse2D) and graph committer (JoinTracks).                         *)
(*                                                                         *)
(* Numbers.  The code computes in double.  The model computes in fixed     *)
(* point: a length is an integer number of tenths of a detector unit, a    *)
(* squared length (mse, mse2D, Dist2) an integer number of hundredths.     *)
(* Hence 4.0 is 40, 4.0 * 4.0 is 1600, 1.0E+6 (a squared length) is        *)
(* 100000000.  Divisions round to the nearest integer.                     *)
(*                                                                         *)
(* Geometry.  The scenes lie in the plane y = 0: a point is <<x, z>>.      *)
(* With dy = 0 the weight of Compute is 1 - (0 - 1)^12 = 0, raised to the  *)
(* floor 0.3.  The one readout plane of the modelled TPC is the collection *)
(* plane, whose 2D view of the plane y = 0 is the identity.                *)
(*                                                                         *)
(* The track graph (pma::Track3D, pma::Node3D, pma::Segment3D), the        *)
(* solver (pma::SolveLeastSquares3D) and the geometry helpers are not part *)
(* of PmaVtxCandidate.cxx; they are modelled from their contract.          *)
(***************************************************************************)
EXTENDS Integers, Sequences, FiniteSets, TLC

VARIABLES
    nodes,    \* node id -> point of the node (Node3D::Point3D)
    trks,     \* track id -> [n: node ids in order, alive: not yet deleted]
    src,      \* the "src" collection of JoinTracks: a sequence of track ids
    tracks,   \* the "tracks" (output) collection of JoinTracks
    cand,     \* candidate id -> the fields of that VtxCandidate
    last,     \* the last call made and how it ended (history)
    added,    \* candidate id -> tracks whose Add returned true (history)
    surgery,  \* candidate id -> JoinTracks has rewired the graph for it (history)
    first,    \* candidate id -> how its first JoinTracks call ended (history)
    ops       \* number of calls the caller has left

vars == <<nodes, trks, src, tracks, cand, last, added, surgery, first, ops>>

----------------------------------------------------------------------------
(* Bounds and program constants *)

MaxOps == 4

MaxOpsPair == 5

MaxTuneShift == 1

MaxMinLength == 60

MaxOpsTwice == 7

kMaxDistToTrack == 40
kMinDistToNode == 20
kMergeMaxDist == 100
kMergeMaxMse == 100
kFitFailed == 100000000
fSegMinLength == 5

Cands == {1, 2}

----------------------------------------------------------------------------
(* Arithmetic *)

Abs(x) == IF x < 0 THEN -x ELSE x

\* a / b rounded to the nearest integer, b > 0
RDiv(a, b) == (2 * a + b) \div (2 * b)

RECURSIVE SqrtIter(_, _, _)
SqrtIter(x, lo, hi) ==
    IF lo >= hi THEN lo
    ELSE LET mid == (lo + hi + 1) \div 2
         IN  IF mid * mid <= x THEN SqrtIter(x, mid, hi)
             ELSE SqrtIter(x, lo, mid - 1)

\* sqrt of a number of hundredths, in tenths
Sqrt(x) ==
    IF x <= 0 THEN 0
    ELSE IF x < 4096 THEN SqrtIter(x, 0, 64)
    ELSE IF x < 1048576 THEN SqrtIter(x, 64, 1024)
    ELSE SqrtIter(x, 1024, 46340)

RECURSIVE SumSeq(_)
SumSeq(s) == IF s = <<>> THEN 0 ELSE Head(s) + SumSeq(Tail(s))

RECURSIVE Reverse(_)
Reverse(s) == IF s = <<>> THEN <<>> ELSE Append(Reverse(Tail(s)), Head(s))

Range(s) == {s[i] : i \in DOMAIN s}

Front(s) == SubSeq(s, 1, Len(s) - 1)

\* the sequence s with its elements computed once
Vec(s) == SubSeq(s, 1, Len(s))

Origin == <<0, 0>>

----------------------------------------------------------------------------
(* Geometry helpers (RecoAlg/PMAlg/Utilities) *)

Sub(p, q) == <<p[1] - q[1], p[2] - q[2]>>

Dot(u, v) == u[1] * v[1] + u[2] * v[2]

Dist2(p, q) == Dot(Sub(p, q), Sub(p, q))

\* f = (p - p0).(p1 - p0) / |p1 - p0|^2, in thousandths
GetSegmentProjVector(p, p0, p1) ==
    LET Fraction(num, l2) == IF l2 = 0 THEN 0 ELSE RDiv(num * 1000, l2)
    IN  Fraction(Dot(Sub(p, p0), Sub(p1, p0)), Dist2(p0, p1))

\* the projection of p to the line through p0 and p1 (not clamped to the segment)
GetProjectionToSegment(p, p0, p1) ==
    LET Along(b, v) == <<p0[1] + RDiv(v[1] * b, 1000), p0[2] + RDiv(v[2] * b, 1000)>>
    IN  Along(GetSegmentProjVector(p, p0, p1), Sub(p1, p0))

\* Segment3D::GetDistance2To: squared distance of p to the segment p0 p1
SegDistance2To(p, p0, p1) ==
    LET Nearest(t, l2) ==
            IF t <= 0 THEN p0
            ELSE IF t >= l2 THEN p1
            ELSE GetProjectionToSegment(p, p0, p1)
    IN  Dist2(p, Nearest(Dot(Sub(p, p0), Sub(p1, p0)), Dist2(p0, p1)))

\* One line of the normal equations: (I - d d^T) scaled by 100, d the unit direction
LineNormal(p0, p1) ==
    LET Normal(v, l2) ==
            [xx |-> RDiv(v[2] * v[2] * 100, l2),
             zz |-> RDiv(v[1] * v[1] * 100, l2),
             xz |-> -RDiv(v[1] * v[2] * 100, l2)]
    IN  Normal(Sub(p1, p0), Dist2(p0, p1))

\* pma::SolveLeastSquares3D: the point closest to all lines and the mean squared
\* distance to them; mse = -1 when fewer than two lines are given or the lines
\* do not determine a point (parallel or nearly parallel lines).
SolveLeastSquares3D(lines) ==
    LET Residual(n, res) ==
            [mse |-> RDiv(SumSeq([i \in 1..n |->
                            Dist2(res, GetProjectionToSegment(res, lines[i][1], lines[i][2]))]), n),
             result |-> res]
        Solve(n, mxx, mzz, mxz, rx, rz, det) ==
            IF n < 2 \/ det < 100 THEN [mse |-> -1, result |-> Origin]
            ELSE Residual(n, <<RDiv(rx * mzz - mxz * rz, det), RDiv(mxx * rz - mxz * rx, det)>>)
        Sums(n, mxx, mzz, mxz, rx, rz) == Solve(n, mxx, mzz, mxz, rx, rz, mxx * mzz - mxz * mxz)
        Normals(n, nr) ==
            Sums(n,
                 SumSeq([i \in 1..n |-> nr[i].xx]),
                 SumSeq([i \in 1..n |-> nr[i].zz]),
                 SumSeq([i \in 1..n |-> nr[i].xz]),
                 SumSeq([i \in 1..n |-> nr[i].xx * lines[i][1][1] + nr[i].xz * lines[i][1][2]]),
                 SumSeq([i \in 1..n |-> nr[i].xz * lines[i][1][1] + nr[i].zz * lines[i][1][2]]))
    IN  Normals(Len(lines), Vec([i \in 1..Len(lines) |-> LineNormal(lines[i][1], lines[i][2])]))

----------------------------------------------------------------------------
(* The track graph: pma::Track3D, pma::Node3D, pma::Segment3D.             *)
(* A graph G is [nodes, trks].  A segment is a pair of consecutive nodes   *)
(* of a track; tracks are attached by sharing a node.  Indexes into a      *)
(* track's nodes are 0-based as in the code: Nodes()[i] is NodeAt(G,t,i).  *)

Graph == [nodes |-> nodes, trks |-> trks]

AliveTrks(G) == {t \in DOMAIN G.trks : G.trks[t].alive}

NNodes(G, t) == Len(G.trks[t].n)

NodeAt(G, t, i) == G.trks[t].n[i + 1]

Point3D(G, v) == G.nodes[v]

FrontNode(G, t) == G.trks[t].n[1]

BackNode(G, t) == G.trks[t].n[NNodes(G, t)]

\* the end points of the segment NextSegment(Nodes()[i]) of track t
SegEnds(G, t, i) == <<Point3D(G, NodeAt(G, t, i)), Point3D(G, NodeAt(G, t, i + 1))>>

\* Segment3D::Length, squared
SegLength2(G, t, i) == Dist2(Point3D(G, NodeAt(G, t, i)), Point3D(G, NodeAt(G, t, i + 1)))

SegLength(G, t, i) == Sqrt(SegLength2(G, t, i))

\* Track3D::Length: the sum of the lengths of the segments
TrackLength(G, t) ==
    SumSeq(Vec([i \in 1..(NNodes(G, t) - 1) |-> SegLength(G, t, i - 1)]))

\* Node3D::Prev: the tracks owning a segment that ends at node v
PrevParents(G, v) ==
    {t \in AliveTrks(G) : \E i \in 2..NNodes(G, t) : G.trks[t].n[i] = v}

HasPrev(G, v) == PrevParents(G, v) # {}

PrevParent(G, v) ==
    LET Least(S) == CHOOSE t \in S : \A u \in S : t <= u
    IN  Least(PrevParents(G, v))

\* Track3D::NextSegment(v) is not null: track t owns a segment starting at v
HasNextSegment(G, t, v) == \E i \in 1..(NNodes(G, t) - 1) : G.trks[t].n[i] = v

\* Node3D::NextCount: the number of segments starting at v
NextCount(G, v) ==
    Cardinality({<<t, i>> \in AliveTrks(G) \X (1..Len(G.nodes)) :
                    i < NNodes(G, t) /\ G.trks[t].n[i] = v})

\* the tracks owning a segment that starts at v (Node3D::GetBranches)
NodeBranches(G, v) == {t \in AliveTrks(G) : HasNextSegment(G, t, v)}

RECURSIVE SetToSeq(_)
SetToSeq(S) ==
    LET First(m) == <<m>> \o SetToSeq(S \ {m})
    IN  IF S = {} THEN <<>> ELSE First(CHOOSE x \in S : \A y \in S : x <= y)

RECURSIVE GetRootFrom(_, _, _)
GetRootFrom(G, t, fuel) ==
    LET Up(parents) ==
            LET Step(parent) == IF parent = t THEN t ELSE GetRootFrom(G, parent, fuel - 1)
            IN  IF parents = {} THEN t
                ELSE Step(CHOOSE p \in parents : \A u \in parents : p <= u)
    IN  IF fuel = 0 THEN t ELSE Up(PrevParents(G, FrontNode(G, t)))

\* Track3D::GetRoot: the track reached by following the segment before the
\* front node, as long as there is one
GetRoot(G, t) == GetRootFrom(G, t, Len(G.trks))

\* the tracks that start from a node of t (from any node but the first, with skipFirst)
Children(G, t, skipFirst) ==
    {u \in AliveTrks(G) \ {t} :
        \E i \in (IF skipFirst THEN 2 ELSE 1)..NNodes(G, t) :
            HasNextSegment(G, u, G.trks[t].n[i])}

RECURSIVE WalkBranches(_, _, _, _)
WalkBranches(G, stack, seen, ok) ==
    IF stack = <<>> THEN [ok |-> ok, branches |-> seen]
    ELSE LET t == Head(stack)
         IN  IF t \in seen THEN WalkBranches(G, Tail(stack), seen, FALSE)
             ELSE WalkBranches(G, SetToSeq(Children(G, t, seen # {})) \o Tail(stack),
                               seen \cup {t}, ok)

\* Track3D::GetBranches: every track reachable from t, and whether no track was
\* reached twice (no loop)
GetBranches(G, t) == WalkBranches(G, <<t>>, {}, TRUE)

\* Track3D::IsAttachedTo
IsAttachedTo(G, a, b) ==
    LET Share(ba, bb) == ~ba.ok \/ ~bb.ok \/ ba.branches \cap bb.branches # {}
    IN  a = b \/ Share(GetBranches(G, a), GetBranches(G, b))

----------------------------------------------------------------------------
(* pma::VtxCandidate: queries *)

AssignedTrks(asg) == {asg[i][1] : i \in DOMAIN asg}

Has(asg, trk) == \E i \in DOMAIN asg : asg[i][1] = trk

HasCandidate(asg, other) == \A i \in DOMAIN other : Has(asg, other[i][1])

\* a mutant: only a track that is itself assigned counts as attached
IsAttachedIfAssigned(G, asg, trk) == Has(asg, trk)

IsAttached(G, asg, trk) ==
    \E i \in DOMAIN asg : IsAttachedTo(G, GetRoot(G, trk), GetRoot(G, asg[i][1]))

IsAttachedCandidate(G, asg, other) ==
    \E i \in DOMAIN other : IsAttached(G, asg, other[i][1])

HasLoops(G, asg) ==
    \E t \in DOMAIN asg : \E u \in DOMAIN asg :
        t # u /\ IsAttachedTo(G, GetRoot(G, asg[t][1]), GetRoot(G, asg[u][1]))

Size(G, asg, minLength) ==
    Cardinality({i \in DOMAIN asg : TrackLength(G, asg[i][1]) > minLength})

\* cos of d degrees, in thousandths (Bhaskara's approximation, within 0.002)
CosDeg(d) == (1000 * (32400 - 4 * d * d)) \div (32400 + d * d)

\* 180 * acos(a) / pi for a in 0..1000 thousandths, to the degree
AcosDeg(a) == CHOOSE d \in 0..90 : \A e \in 0..90 : Abs(CosDeg(d) - a) <= Abs(CosDeg(e) - a)

\* the direction of the segment an assigned entry names (not normalised)
SegDir(G, v) == Sub(Point3D(G, NodeAt(G, v[1], v[2] + 1)), Point3D(G, NodeAt(G, v[1], v[2])))

\* fabs(dir_i * dir_j) for the unit vectors along u and v, in thousandths; a
\* vector of no length gives no number that is below anything
AbsCos(u, v) ==
    LET Over(num, den) == IF den = 0 THEN 1000 ELSE RDiv(num * 1000, den)
    IN  Over(Abs(Dot(u, v)), Sqrt(Dot(u, u)) * Sqrt(Dot(v, v)))

\* The loop of lines 261-273 from index i on: st = [max_l, max_l_idx, dir_i].
\* The loop stops before the last entry (i < fAssigned.size() - 1).
RECURSIVE LongestFrom(_, _, _, _)
LongestFrom(G, asg, i, st) ==
    LET Measured(l) ==
            IF l > st.max_l
            THEN LongestFrom(G, asg, i + 1,
                             [max_l |-> l, max_l_idx |-> i, dir_i |-> SegDir(G, asg[i + 1])])
            ELSE LongestFrom(G, asg, i + 1, st)
    IN  IF i >= Len(asg) - 1 THEN st ELSE Measured(TrackLength(G, asg[i + 1][1]))

\* The loop of lines 276-286 from index j on: the least fabs(dir_i * dir_j)
RECURSIVE LeastCos(_, _, _, _, _, _)
LeastCos(G, asg, minLength, ref, j, min) ==
    LET Compared(a) == LeastCos(G, asg, minLength, ref, j + 1, IF a < min THEN a ELSE min)
    IN  IF j >= Len(asg) THEN min
        ELSE IF j # ref.max_l_idx /\ TrackLength(G, asg[j + 1][1]) > minLength
        THEN Compared(AbsCos(ref.dir_i, SegDir(G, asg[j + 1])))
        ELSE LeastCos(G, asg, minLength, ref, j + 1, min)

\* MaxAngle(minLength): the outcomes of the call, each [path, ref: max_l_idx,
\* compared: the entries compared with the reference, angle: the value
\* returned].  On an empty assigned set fAssigned.size() - 1 wraps around and the
\* first loop reads entries that are not there: any value, or no return.
MaxAngleCall(G, asg, minLength) ==
    LET Found(ref) ==
            {[path |-> "angle", ref |-> ref.max_l_idx,
              compared |-> {j \in 0..(Len(asg) - 1) :
                              j # ref.max_l_idx /\ TrackLength(G, asg[j + 1][1]) > minLength},
              angle |-> AcosDeg(LeastCos(G, asg, minLength, ref, 0, 1000))]}
    IN  IF asg = <<>>
        THEN {[path |-> p, ref |-> 0, compared |-> {}, angle |-> a] :
                 p \in {"undefined", "crash"}, a \in {0, 90}}
        ELSE Found(LongestFrom(G, asg, 0, [max_l |-> 0, max_l_idx |-> 0, dir_i |-> Origin]))

----------------------------------------------------------------------------
(* pma::VtxCandidate::Compute and ComputeMse2D *)

\* w = 1 - (fy_norm - 1)^12 with fy_norm = asin(|dy| / segLength) / (pi / 2),
\* not below 0.3; in the plane y = 0, dy = 0 and fy_norm = 0.  In tenths.
SegWeight(p0, p1) ==
    LET fyNorm == 0
        w == 10 - 10 * ((fyNorm - 1) ^ 12)
    IN  IF w < 3 THEN 3 ELSE w

\* the entries of asg whose segment is long enough to enter the fit
FitEntries(G, asg) ==
    SelectSeq(asg, LAMBDA v : SegLength2(G, v[1], v[2]) >= fSegMinLength * fSegMinLength)

\* Compute: [mse: the value returned, center, err: fCenter and fErr afterwards]
Compute(G, asg) ==
    LET Mean(n, weights, mse, pproj) ==
            [mse |-> mse,
             center |-> <<RDiv(SumSeq([s \in 1..n |-> weights[s] * pproj[s][1]]), SumSeq(weights)),
                          RDiv(SumSeq([s \in 1..n |-> pproj[s][2]]), n)>>,
             err |-> <<Sqrt(RDiv(SumSeq([s \in 1..n |-> weights[s] * weights[s]]), n)),
                       Sqrt(RDiv(100 * n, n))>>]
        Solved(n, lines, weights, sol) ==
            IF sol.mse < 0
            THEN [mse |-> kFitFailed, center |-> Origin, err |-> Origin]
            ELSE Mean(n, weights, sol.mse,
                      Vec([s \in 1..n |->
                              GetProjectionToSegment(sol.result, lines[s][1], lines[s][2])]))
        Lines(n, lines) ==
            Solved(n, lines, Vec([s \in 1..n |-> SegWeight(lines[s][1], lines[s][2])]),
                   SolveLeastSquares3D(lines))
        Entries(ent) ==
            Lines(Len(ent), Vec([s \in 1..Len(ent) |-> SegEnds(G, ent[s][1], ent[s][2])]))
    IN  Entries(FitEntries(G, asg))

\* 0.0 / 0: the quotient ComputeMse2D returns for an empty assigned set
NaN == -1

\* ComputeMse2D for the center given: the mean over the assigned tracks of the
\* squared 2D distance of the center to the track's segment, averaged over the
\* planes of the TPC (one plane, k = 1)
ComputeMse2D(G, asg, center) ==
    IF asg = <<>> THEN NaN
    ELSE RDiv(SumSeq([i \in 1..Len(asg) |->
                 RDiv(SegDistance2To(center, Point3D(G, NodeAt(G, asg[i][1], asg[i][2])),
                                     Point3D(G, NodeAt(G, asg[i][1], asg[i][2] + 1))), 1)]),
              Len(asg))

\* Test: the distance of the centers, each axis scaled by both candidates' errors
Test(c, other) ==
    LET dx == c.center[1] - other.center[1]
        dz == c.center[2] - other.center[2]
    IN  Sqrt(RDiv(c.err[1] * other.err[1] * dx * dx + c.err[2] * other.err[2] * dz * dz, 100))

----------------------------------------------------------------------------
(* pma::VtxCandidate::Add *)

SetIdx(asg, i, n) == [asg EXCEPT ![i] = <<asg[i][1], n>>]

\* fMse = Compute(); fMse2D = ComputeMse2D(); for the assigned set a (lines 119-120,
\* 126-127, 179-180, 321-322 and 338-339)
Refit(G, c, a) ==
    LET Store(fit) ==
            [c EXCEPT !.assigned = a, !.center = fit.center, !.err = fit.err,
                      !.mse = fit.mse, !.mse2D = ComputeMse2D(G, a, fit.center)]
    IN  Store(Compute(G, a))

\* a mutant: one pop_back too many
PopBackOneMore(asg, k) == SubSeq(asg, 1, Len(asg) - k - 1)

\* pop_back, k times
PopBack(asg, k) == SubSeq(asg, 1, Len(asg) - k)

\* the segment indexes the loops of Add visit: 0 .. Nodes().size() - 2
LastSeg(G, t) == NNodes(G, t) - 2

LongEnough(G, t, n) == ~(SegLength2(G, t, n) < fSegMinLength * fSegMinLength)

\* The loop of lines 99-115 from index n on.  st = [min_mse, n_best, d2_best, fit]:
\* d2_best is d_best squared (d < d_best is decided on the squares), fit the
\* result of the last Compute call.
RECURSIVE ScanThird(_, _, _, _)
ScanThird(G, asg, n, st) ==
    LET trk == asg[Len(asg)][1]
        Closer(fit, d2) ==
            IF fit.mse < st.min_mse /\ d2 < st.d2_best
            THEN ScanThird(G, asg, n + 1,
                           [min_mse |-> fit.mse, n_best |-> n, d2_best |-> d2, fit |-> fit])
            ELSE ScanThird(G, asg, n + 1, [st EXCEPT !.fit = fit])
        Trial(fit) ==
            Closer(fit, SegDistance2To(fit.center, Point3D(G, NodeAt(G, trk, n)),
                                       Point3D(G, NodeAt(G, trk, n + 1))))
    IN  IF n > LastSeg(G, trk) THEN st
        ELSE IF ~LongEnough(G, trk, n) THEN ScanThird(G, asg, n + 1, st)
        ELSE Trial(Compute(G, SetIdx(asg, Len(asg), n)))

\* lines 95-131: the candidate holds more than two tracks with the new one
AddThird(G, c, asg) ==
    LET Scanned(st) ==
            [ok |-> st.d2_best < kMaxDistToTrack * kMaxDistToTrack, path |-> "third",
             c |-> Refit(G, c, IF st.d2_best < kMaxDistToTrack * kMaxDistToTrack
                               THEN SetIdx(asg, Len(asg), st.n_best)
                               ELSE PopBack(asg, 1))]
    IN  Scanned(ScanThird(G, asg, 0,
                          [min_mse |-> kMaxDistToTrack * kMaxDistToTrack, n_best |-> 0,
                           d2_best |-> kMaxDistToTrack * kMaxDistToTrack,
                           fit |-> [mse |-> c.mse, center |-> c.center, err |-> c.err]]))

\* The inner loop of lines 148-170 for one m, from index n on.
\* st = [n_best, m_best, d2_best, l_best, fit].
RECURSIVE ScanSecondN(_, _, _, _, _)
ScanSecondN(G, asg, m, n, st) ==
    LET p0 == asg[1][1]
        trk == asg[Len(asg)][1]
        \* d < d_best, and lm + ln > 0.8 * ((d_best - d) / d_best) * l_best
        Closer(fit, d2, d, d_best, l) ==
            IF d2 < st.d2_best /\ 10 * l * d_best > 8 * (d_best - d) * st.l_best
            THEN ScanSecondN(G, asg, m, n + 1,
                             [n_best |-> n, m_best |-> m, d2_best |-> d2,
                              l_best |-> l, fit |-> fit, m_last |-> m])
            ELSE ScanSecondN(G, asg, m, n + 1, [st EXCEPT !.fit = fit])
        Measured(fit, d2) ==
            Closer(fit, d2, Sqrt(d2), Sqrt(st.d2_best),
                   SegLength(G, p0, m) + SegLength(G, trk, n))
        Trial(a, fit) == Measured(fit, ComputeMse2D(G, a, fit.center))
        Indexed(a) == Trial(a, Compute(G, a))
    IN  IF n > LastSeg(G, trk) THEN st
        ELSE IF ~LongEnough(G, trk, n) THEN ScanSecondN(G, asg, m, n + 1, st)
        ELSE Indexed(SetIdx(SetIdx(asg, 1, m), Len(asg), n))

\* The outer loop of lines 140-171 from index m on; m_last is the index left in
\* fAssigned.front().second.
RECURSIVE ScanSecondM(_, _, _, _)
ScanSecondM(G, asg, m, st) ==
    LET p0 == asg[1][1]
    IN  IF m > LastSeg(G, p0) THEN st
        ELSE IF ~LongEnough(G, p0, m) THEN ScanSecondM(G, asg, m + 1, st)
        ELSE ScanSecondM(G, asg, m + 1,
                         ScanSecondN(G, asg, m, 0, [st EXCEPT !.m_last = m]))

\* a mutant: the second track is taken as appended, whatever its distance
AddSecondUnchecked(G, c, asg) == [ok |-> TRUE, path |-> "second", c |-> Refit(G, c, asg)]

\* lines 132-190: the candidate holds two tracks with the new one
AddSecond(G, c, asg) ==
    LET Scanned(st) ==
            IF st.d2_best < kMaxDistToTrack * kMaxDistToTrack
            THEN [ok |-> TRUE, path |-> "second",
                  c |-> Refit(G, c, SetIdx(SetIdx(asg, 1, st.m_best), Len(asg), st.n_best))]
            ELSE [ok |-> FALSE, path |-> "second",
                  c |-> [c EXCEPT !.assigned = PopBack(SetIdx(asg, 1, st.m_last), 1),
                                  !.center = Origin, !.err = st.fit.err,
                                  !.mse = 0, !.mse2D = 0]]
    IN  Scanned(ScanSecondM(G, asg, 0,
                            [n_best |-> 0, m_best |-> 0,
                             d2_best |-> kMaxDistToTrack * kMaxDistToTrack, l_best |-> 0,
                             fit |-> [mse |-> c.mse, center |-> c.center, err |-> c.err],
                             m_last |-> asg[1][2]]))

\* lines 191-205: the new track is the only one
AddFirst(G, c, asg) ==
    LET trk == asg[Len(asg)][1]
    IN  IF \E n \in 0..LastSeg(G, trk) : LongEnough(G, trk, n)
        THEN [ok |-> TRUE, path |-> "first", c |-> [c EXCEPT !.assigned = asg]]
        ELSE [ok |-> FALSE, path |-> "first",
              c |-> [c EXCEPT !.assigned = PopBack(asg, 1), !.center = Origin,
                              !.mse = 0, !.mse2D = 0]]

\* lines 91-205: the track is appended and a segment of it is looked for
AddBody(G, c, trk) ==
    LET asg == Append(c.assigned, <<trk, 0>>)
    IN  IF Len(asg) > 2 THEN AddThird(G, c, asg)
        ELSE IF Len(asg) = 2 THEN AddSecond(G, c, asg)
        ELSE AddFirst(G, c, asg)

\* a mutant: Add without the IsAttached test of line 89
AddUnguarded(G, c, trk) == AddBody(G, c, trk)

\* Add(trk) on candidate c: [ok: the value returned, path, c: the candidate afterwards]
AddCall(G, c, trk) ==
    IF IsAttached(G, c.assigned, trk)
    THEN [ok |-> FALSE, path |-> "attached", c |-> c]
    ELSE AddBody(G, c, trk)

----------------------------------------------------------------------------
(* pma::VtxCandidate::MergeWith *)

\* a mutant: the tracks of other are appended with segment index 0
MergeAppendReindexed(G, asg, other, k, ntrk) ==
    [attached |-> \E i \in DOMAIN other : IsAttached(G, asg, other[i][1]),
     asg |-> asg \o Vec([i \in DOMAIN other |-> <<other[i][1], 0>>]),
     ntrk |-> Len(other)]

\* The loop of lines 303-315 from entry k of other on: [attached: the loop
\* returned false, asg: fAssigned afterwards, ntrk]
RECURSIVE MergeAppend(_, _, _, _, _)
MergeAppend(G, asg, other, k, ntrk) ==
    IF k > Len(other) THEN [attached |-> FALSE, asg |-> asg, ntrk |-> ntrk]
    ELSE IF IsAttached(G, asg, other[k][1])
         THEN [attached |-> TRUE, asg |-> asg, ntrk |-> ntrk]
    ELSE IF ~Has(asg, other[k][1])
         THEN MergeAppend(G, Append(asg, other[k]), other, k + 1, ntrk + 1)
    ELSE MergeAppend(G, asg, other, k + 1, ntrk)

\* lines 300-347: MergeWith past the distance gate
MergeWithBody(G, c, other) ==
    LET Tried(ap, mse) ==
            [ok |-> mse < kMergeMaxMse,
             path |-> IF mse < kMergeMaxMse THEN "merged" ELSE "highmse",
             c |-> Refit(G, c, IF mse < kMergeMaxMse THEN ap.asg
                               ELSE PopBack(ap.asg, ap.ntrk))]
        Looped(ap) ==
            IF ap.attached
            THEN [ok |-> FALSE, path |-> "attached", c |-> [c EXCEPT !.assigned = ap.asg]]
            ELSE IF ap.ntrk = 0
            THEN [ok |-> FALSE, path |-> "notracks", c |-> c]
            ELSE Tried(ap, Compute(G, ap.asg).mse)
    IN  Looped(MergeAppend(G, c.assigned, other.assigned, 1, 0))

\* a mutant: MergeWith without the distance gate of lines 293-298
MergeWithUngated(G, c, other) == MergeWithBody(G, c, other)

\* MergeWith(other) on candidate c: [ok, path, c: the candidate afterwards]
MergeWithCall(G, c, other) ==
    IF Dist2(c.center, other.center) > kMergeMaxDist * kMergeMaxDist
    THEN [ok |-> FALSE, path |-> "far", c |-> c]
    ELSE MergeWithBody(G, c, other)

----------------------------------------------------------------------------
(* The track graph: pma::Track3D surgery *)

RECURSIVE CanFlipFrom(_, _, _)
CanFlipFrom(G, t, fuel) ==
    LET f == FrontNode(G, t)
        Owner(q) ==
            IF fuel = 0 \/ HasNextSegment(G, q, f) THEN FALSE
            ELSE CanFlipFrom(G, q, fuel - 1)
    IN  IF ~HasPrev(G, f) THEN TRUE ELSE Owner(PrevParent(G, f))

\* Track3D::CanFlip: a track that starts from the middle of another cannot be
\* reversed; one that starts from the end of another can if that one can
CanFlip(G, t) == CanFlipFrom(G, t, Len(G.trks))

RECURSIVE FlipFrom(_, _, _)
FlipFrom(G, t, fuel) ==
    LET f == FrontNode(G, t)
        Turn(G1) == [G1 EXCEPT !.trks[t].n = Reverse(G1.trks[t].n)]
    IN  Turn(IF HasPrev(G, f) /\ fuel > 0 THEN FlipFrom(G, PrevParent(G, f), fuel - 1) ELSE G)

\* Track3D::Flip: reverse the track, the track it starts from first
Flip(G, t) == IF CanFlip(G, t) THEN FlipFrom(G, t, Len(G.trks)) ELSE G

\* every use of node old becomes a use of node new (old is deleted)
MergeNode(G, old, new) ==
    [nodes |-> G.nodes,
     trks |-> Vec([t \in DOMAIN G.trks |->
        IF G.trks[t].alive
        THEN [n |-> Vec([i \in DOMAIN G.trks[t].n |->
                      IF G.trks[t].n[i] = old THEN new ELSE G.trks[t].n[i]]),
              alive |-> TRUE]
        ELSE G.trks[t]])]

\* a track ending at v that can be reversed, so that v has no segment before it
FreeOfPrev(G, v) ==
    LET Owner(q) ==
            IF BackNode(G, q) = v /\ ~HasNextSegment(G, q, v) /\ CanFlip(G, q)
            THEN [ok |-> TRUE, G |-> Flip(G, q)]
            ELSE [ok |-> FALSE, G |-> G]
    IN  IF ~HasPrev(G, v) THEN [ok |-> TRUE, G |-> G] ELSE Owner(PrevParent(G, v))

\* Track3D::AttachTo(vStart): the front node of t becomes vStart.  A node keeps at
\* most one segment before it: when both nodes have one, a track that ends there
\* is reversed, and the attachment fails when none can be.
AttachTo(G, t, v) ==
    LET f == FrontNode(G, t)
        Freed(a, b) ==
            IF a.ok THEN [ok |-> TRUE, G |-> MergeNode(a.G, f, v)]
            ELSE IF b.ok THEN [ok |-> TRUE, G |-> MergeNode(b.G, f, v)]
            ELSE [ok |-> FALSE, G |-> G]
    IN  IF f = v THEN [ok |-> TRUE, G |-> G]
        ELSE IF v \in Range(G.trks[t].n) THEN [ok |-> FALSE, G |-> G]
        ELSE IF HasPrev(G, f) /\ HasPrev(G, v)
        THEN Freed(FreeOfPrev(G, f), FreeOfPrev(G, v))
        ELSE [ok |-> TRUE, G |-> MergeNode(G, f, v)]

\* Track3D::AttachBackTo(vStart): the back node of t becomes vStart
AttachBackTo(G, t, v) ==
    LET b == BackNode(G, t)
        Freed(a) ==
            IF a.ok THEN [ok |-> TRUE, G |-> MergeNode(a.G, b, v)]
            ELSE [ok |-> FALSE, G |-> G]
    IN  IF b = v THEN [ok |-> TRUE, G |-> G]
        ELSE IF v \in Range(G.trks[t].n) THEN [ok |-> FALSE, G |-> G]
        ELSE Freed(FreeOfPrev(G, v))

\* Track3D::InsertNode(p3d, at_idx, tpc, cryo): a new node at index idx
InsertNode(G, t, p, idx) ==
    [nodes |-> Append(G.nodes, p),
     trks |-> [G.trks EXCEPT ![t].n =
                  SubSeq(@, 1, idx) \o <<Len(G.nodes) + 1>> \o SubSeq(@, idx + 1, Len(@))]]

\* Track3D::Split(idx): the new track (0 when there is none) takes the nodes up to
\* idx, t keeps the nodes from idx on; both share node idx
Split(G, t, idx) ==
    IF idx = 0 \/ idx + 1 >= NNodes(G, t) THEN [t0 |-> 0, G |-> G]
    ELSE [t0 |-> Len(G.trks) + 1,
          G |-> [G EXCEPT !.trks =
                    Append([G.trks EXCEPT ![t].n = SubSeq(G.trks[t].n, idx + 1, NNodes(G, t))],
                           [n |-> SubSeq(G.trks[t].n, 1, idx + 1), alive |-> TRUE])]]

SetPoint3D(G, v, p) == [nodes |-> [G.nodes EXCEPT ![v] = p], trks |-> G.trks]

----------------------------------------------------------------------------
(* pma::VtxCandidate::JoinTracks *)

\* a mutant: the assigned tracks are pushed to tracks and stay in src
MoveAssignedCopies(asg, k, tr, sr) ==
    [tracks |-> tr \o Vec([i \in 1..Len(asg) |-> asg[i][1]]), src |-> sr]

\* lines 450-463: every assigned track found in src moves to the end of tracks;
\* [tracks, src] afterwards
RECURSIVE MoveAssigned(_, _, _, _)
MoveAssigned(asg, k, tr, sr) ==
    IF k > Len(asg) THEN [tracks |-> tr, src |-> sr]
    ELSE LET at == {t \in DOMAIN sr : sr[t] = asg[k][1]}
         IN  IF at = {} THEN MoveAssigned(asg, k + 1, tr, sr)
             ELSE LET t == CHOOSE x \in at : \A y \in at : x <= y
                  IN  MoveAssigned(asg, k + 1, Append(tr, sr[t]),
                                   SubSeq(sr, 1, t - 1) \o SubSeq(sr, t + 1, Len(sr)))

\* lines 566-592 and 630-655: where the center goes in the segment idx of trk:
\* a new node inside the segment, the end of the segment or its start
PlaceCenter(G, trk, idx, center) ==
    LET Put(p0, p1, f, ds) ==
            IF f >= 0 /\ f <= 1000 /\ f * ds > kMinDistToNode * 1000
               /\ (1000 - f) * ds > kMinDistToNode * 1000
            THEN [G |-> InsertNode(G, trk, center, idx + 1), idx |-> idx + 1]
            ELSE IF Dist2(p1, center) < Dist2(p0, center)
            THEN [G |-> G, idx |-> idx + 1]
            ELSE [G |-> G, idx |-> idx]
        Ends(p0, p1) == Put(p0, p1, GetSegmentProjVector(center, p0, p1), Sqrt(Dist2(p0, p1)))
    IN  Ends(Point3D(G, NodeAt(G, trk, idx)), Point3D(G, NodeAt(G, trk, idx + 1)))

\* a mutant: the branches of the earlier vertex stay where they are
KeepBranches(G, bs, v) == G

\* lines 672-681: every branch of the old vertex node is attached to innerCenter
RECURSIVE ReattachBranches(_, _, _)
ReattachBranches(G, branches, innerCenter) ==
    IF branches = <<>> THEN G
    ELSE ReattachBranches(AttachTo(G, Head(branches), innerCenter).G,
                          Tail(branches), innerCenter)

\* a mutant: a center inside a track always splits the track
SplitsAlways(hasInnerCenter, canFlipPrev) == TRUE

\* line 561: the track is split at the center, and is not made the inner center
SplitsTrack(hasInnerCenter, canFlipPrev) == hasInnerCenter \/ ~canFlipPrev

\* One turn of the loop of lines 468-696 for the entry i (from 0) of the assigned
\* set.  J = [G: the graph, tracks, vtx: vtxCenter (0: null), inner:
\* hasInnerCenter, nOK, how: the branch each track took, old: the nodes that
\* were vtxCenter before].
JoinOne(J, asg, center, i) ==
    LET G == J.G
        trk == asg[i + 1][1]
        idx == asg[i + 1][2]
        \* trk was attached to vtxCenter, or was not: nOK grows by k when it was
        Attached(a, how, k) ==
            [J EXCEPT !.G = a.G, !.nOK = IF a.ok THEN @ + k ELSE @,
                      !.how = Append(@, IF a.ok THEN how ELSE "failed")]
        \* lines 499-512: the center is at the front node of trk
        AtFront ==
            IF i = 0
            THEN [J EXCEPT !.G = SetPoint3D(G, FrontNode(G, trk), center),
                           !.vtx = FrontNode(G, trk), !.nOK = @ + 1,
                           !.how = Append(@, "front")]
            ELSE Attached(AttachTo(G, trk, J.vtx), "front", 1)
        \* lines 516-549: the center is at the back node of trk
        BackAt(G1, v) ==
            [J EXCEPT !.G = SetPoint3D(G1, v, center), !.vtx = v, !.nOK = @ + 1,
                      !.how = Append(@, "back")]
        Turned(can, G1) == BackAt(G1, IF can THEN FrontNode(G1, trk) ELSE BackNode(G1, trk))
        AtBack ==
            IF i = 0
            THEN Turned(CanFlip(G, trk), IF CanFlip(G, trk) THEN Flip(G, trk) ELSE G)
            ELSE IF HasPrev(G, J.vtx) /\ CanFlip(G, trk)
                 THEN Attached(AttachTo(Flip(G, trk), trk, J.vtx), "back", 1)
                 ELSE Attached(AttachBackTo(G, trk, J.vtx), "back", 1)
        \* lines 553-559
        canFlipPrev ==
            IF J.vtx # 0 /\ HasPrev(G, J.vtx)
            THEN IF HasNextSegment(G, PrevParent(G, J.vtx), J.vtx) THEN FALSE
                 ELSE CanFlip(G, PrevParent(G, J.vtx))
            ELSE TRUE
        \* lines 594-622: trk is split at the center
        SplitAt(sp) ==
            IF sp.t0 = 0 THEN [J EXCEPT !.G = sp.G, !.how = Append(@, "failed")]
            ELSE IF i = 0
                 THEN [J EXCEPT !.G = sp.G, !.tracks = Append(@, sp.t0),
                                !.vtx = FrontNode(sp.G, trk), !.nOK = @ + 2,
                                !.how = Append(@, "split")]
                 ELSE [Attached(AttachTo(sp.G, trk, J.vtx), "split", 2)
                          EXCEPT !.tracks = Append(@, sp.t0)]
        \* lines 657-690: the center is a node inside trk
        Reattached(innerCenter, G3) ==
            [J EXCEPT !.G = G3, !.vtx = innerCenter, !.inner = TRUE,
                      !.old = @ \cup ({J.vtx} \ {innerCenter}),
                      !.nOK = @ + 1, !.how = Append(@, "inner")]
        Prepared(innerCenter, G2) ==
            Reattached(innerCenter,
                       ReattachBranches(G2, SetToSeq(NodeBranches(G2, J.vtx)), innerCenter))
        InnerAt(pc, innerCenter) ==
            IF i > 0
            THEN Prepared(innerCenter,
                          IF HasPrev(pc.G, J.vtx) THEN Flip(pc.G, PrevParent(pc.G, J.vtx))
                          ELSE pc.G)
            ELSE [J EXCEPT !.G = pc.G, !.vtx = innerCenter, !.inner = TRUE,
                           !.nOK = @ + 1, !.how = Append(@, "inner")]
        Placed(pc) ==
            IF SplitsTrack(J.inner, canFlipPrev) THEN SplitAt(Split(pc.G, trk, pc.idx))
            ELSE InnerAt(pc, NodeAt(pc.G, trk, pc.idx))
        Where(f, ds) ==
            IF idx = 0 /\ f * ds <= kMinDistToNode * 1000 THEN AtFront
            ELSE IF idx + 2 = NNodes(G, trk) /\ (1000 - f) * ds <= kMinDistToNode * 1000
            THEN AtBack
            ELSE Placed(PlaceCenter(G, trk, idx, center))
        Ends(p0, p1) == Where(GetSegmentProjVector(center, p0, p1), Sqrt(Dist2(p0, p1)))
    IN  Ends(Point3D(G, NodeAt(G, trk, idx)), Point3D(G, NodeAt(G, trk, idx + 1)))

RECURSIVE JoinLoop(_, _, _, _)
JoinLoop(J, asg, center, i) ==
    IF i >= Len(asg) THEN J ELSE JoinLoop(JoinOne(J, asg, center, i), asg, center, i + 1)

RECURSIVE RemoveBranches(_, _)
RemoveBranches(tr, branches) ==
    IF tr = <<>> THEN <<>>
    ELSE IF Head(tr) \in branches THEN RemoveBranches(Tail(tr), branches)
    ELSE <<Head(tr)>> \o RemoveBranches(Tail(tr), branches)

\* the value of TuneFullTree above which the tuning did not diverge
kTuneDiverged == -2

\* Track3D::TuneFullTree on the tree of the vertex node v, as far as it shows
\* here: the fit moves the nodes of the tree; g = [value: the value returned,
\* dx: how far the vertex node moves]
TuneFullTree(G, v, g) == SetPoint3D(G, v, <<G.nodes[v][1] + g.dx, G.nodes[v][2]>>)

\* a mutant: one joined track is enough to commit
CanCommitWithOne(noLoops, nOK) == noLoops /\ nOK > 0

\* line 716: the vertex is committed
CanCommit(noLoops, nOK) == noLoops /\ nOK > 1

\* a mutant: the branches go on every failure, too few joined tracks included
RemovesOnAnyFailure(noLoops, tuneOK, nOK) == ~(noLoops /\ tuneOK) \/ nOK < 2

\* line 733: the branches are removed from tracks and deleted (nOK is not consulted)
RemovesBranches(noLoops, tuneOK, nOK) == ~(noLoops /\ tuneOK)

\* lines 432-753: JoinTracks on a candidate not joined before
JoinTracksBody(G, c, tr, sr, g) ==
    LET c1 == [c EXCEPT !.joined = TRUE]
        \* no vertex node, or one with no segment
        Nothing(mv, J, path) ==
            [ok |-> FALSE, path |-> path, c |-> c1, G |-> J.G,
             tracks |-> J.tracks, src |-> mv.src, vtx |-> J.vtx, nOK |-> J.nOK,
             noLoops |-> TRUE, tuneOK |-> TRUE, branches |-> {}, removed |-> {},
             how |-> J.how, asg |-> c.assigned, old |-> J.old, at |-> Origin,
             moved |-> mv]
        \* lines 716-746
        Finish(mv, J, gb, commit) ==
            LET noLoops == gb.ok
                tuneOK == ~(commit /\ ~(g.value > kTuneDiverged))
                remove == RemovesBranches(noLoops, tuneOK, J.nOK)
                removed == IF remove THEN gb.branches \cap Range(J.tracks) ELSE {}
            IN  [ok |-> commit /\ g.value > kTuneDiverged,
                 path |-> IF ~noLoops THEN "loops"
                          ELSE IF ~(J.nOK > 1) THEN "fewOK"
                          ELSE IF ~tuneOK THEN "tune" ELSE "done",
                 c |-> IF commit
                       THEN [c1 EXCEPT !.assigned = <<>>,
                                       !.center = Point3D(J.G, J.vtx),
                                       !.mse = 0, !.mse2D = 0]
                       ELSE c1,
                 G |-> [nodes |-> IF commit THEN TuneFullTree(J.G, J.vtx, g).nodes
                                  ELSE J.G.nodes,
                        trks |-> Vec([t \in DOMAIN J.G.trks |->
                             IF t \in removed
                             THEN [n |-> J.G.trks[t].n, alive |-> FALSE]
                             ELSE J.G.trks[t]])],
                 tracks |-> IF remove THEN RemoveBranches(J.tracks, gb.branches)
                            ELSE J.tracks,
                 src |-> mv.src, vtx |-> J.vtx, nOK |-> J.nOK, noLoops |-> noLoops,
                 tuneOK |-> tuneOK, branches |-> gb.branches, removed |-> removed,
                 how |-> J.how, asg |-> c.assigned, old |-> J.old,
                 at |-> Point3D(J.G, J.vtx), moved |-> mv]
        \* lines 713-714
        Rooted(mv, J, gb) == Finish(mv, J, gb, CanCommit(gb.ok, J.nOK))
        \* lines 705-711
        Parent(mv, J, parent) == Rooted(mv, J, GetBranches(J.G, GetRoot(J.G, parent)))
        FirstOf(S) == CHOOSE t \in S : \A u \in S : t <= u
        Looped(mv, J) ==
            IF J.vtx = 0 THEN Nothing(mv, J, "novertex")
            ELSE IF NextCount(J.G, J.vtx) = 0 /\ ~HasPrev(J.G, J.vtx)
            THEN Nothing(mv, J, "throw")
            ELSE Parent(mv, J, IF NextCount(J.G, J.vtx) # 0
                               THEN FirstOf(NodeBranches(J.G, J.vtx))
                               ELSE PrevParent(J.G, J.vtx))
        Moved(mv) ==
            Looped(mv, JoinLoop([G |-> G, tracks |-> mv.tracks, vtx |-> 0, inner |-> FALSE,
                                 nOK |-> 0, how |-> <<>>, old |-> {}],
                                c.assigned, c.center, 0))
    IN  Moved(MoveAssigned(c.assigned, 1, tr, sr))

\* a mutant: JoinTracks without the guard of lines 426-430
JoinTracksUnguarded(G, c, tr, sr, g) == JoinTracksBody(G, c, tr, sr, g)

\* a mutant: JoinTracks keeping tracksJoined only when the commit succeeded
JoinTracksRetried(G, c, tr, sr, g) ==
    LET Kept(r) == IF r.ok THEN r ELSE [r EXCEPT !.c.joined = FALSE]
    IN  IF c.joined THEN [JoinTracksBody(G, c, tr, sr, g) EXCEPT !.ok = FALSE, !.path = "joined"]
        ELSE Kept(JoinTracksBody(G, c, tr, sr, g))

\* JoinTracks(tracks, src) on candidate c, TuneFullTree returning g:
\* [ok: the value returned, path, c, G, tracks, src, and what the call found]
JoinTracksCall(G, c, tr, sr, g) ==
    IF c.joined
    THEN [ok |-> FALSE, path |-> "joined", c |-> c, G |-> G, tracks |-> tr, src |-> sr,
          vtx |-> 0, nOK |-> 0, noLoops |-> TRUE, tuneOK |-> TRUE, branches |-> {},
          removed |-> {}, how |-> <<>>, asg |-> c.assigned, old |-> {}, at |-> Origin,
          moved |-> [tracks |-> tr, src |-> sr]]
    ELSE JoinTracksBody(G, c, tr, sr, g)

----------------------------------------------------------------------------
(* The scenes: the track graphs a reconstruction hands to the vertex finder *)

Trk(n) == [n |-> n, alive |-> TRUE]

\* Around the origin: two tracks ending one unit from it, a track starting near
\* it, and a track four units off.
SceneEnds ==
    [nodes |-> << <<-80, 0>>, <<-40, 0>>, <<-10, 0>>,
                  <<0, -80>>, <<0, -40>>, <<0, -10>>,
                  <<10, 10>>, <<50, 50>>,
                  <<40, 50>>, <<40, 90>> >>,
     trks |-> << Trk(<<1, 2, 3>>), Trk(<<4, 5, 6>>), Trk(<<7, 8>>), Trk(<<9, 10>>) >>,
     calls |-> MaxOps]

\* Two tracks passing through the origin, a track starting near it, and a track
\* already attached to the middle node of the second.
SceneThrough ==
    [nodes |-> << <<-60, 0>>, <<60, 0>>,
                  <<0, -70>>, <<0, -5>>, <<0, 60>>,
                  <<10, 10>>, <<50, 50>>,
                  <<-40, -20>> >>,
     trks |-> << Trk(<<1, 2>>), Trk(<<3, 4, 5>>), Trk(<<6, 7>>), Trk(<<4, 8>>) >>,
     calls |-> MaxOps]

\* Two tracks on one line at either side of the origin, and two tracks meeting
\* at (15, 15).
SceneParallel ==
    [nodes |-> << <<-80, 0>>, <<-40, 0>>, <<-10, 0>>,
                  <<10, 0>>, <<50, 0>>,
                  <<10, 10>>, <<50, 50>>, <<140, 140>>,
                  <<150, 160>>, <<150, 200>> >>,
     trks |-> << Trk(<<1, 2, 3>>), Trk(<<4, 5>>), Trk(<<6, 7, 8>>), Trk(<<9, 10>>) >>,
     calls |-> MaxOps]

\* Two tracks ending one unit from the origin and a track too short to enter a
\* fit, with one call more.
ScenePair ==
    [nodes |-> << <<-80, 0>>, <<-10, 0>>,
                  <<0, -80>>, <<0, -10>>,
                  <<100, -100>>, <<103, -100>> >>,
     trks |-> << Trk(<<1, 2>>), Trk(<<3, 4>>), Trk(<<5, 6>>) >>,
     calls |-> MaxOpsPair]

\* A track through the origin, a track starting near it, and a bent track whose
\* first segment points at the origin and whose second passes close by it.
SceneBent ==
    [nodes |-> << <<-60, 0>>, <<60, 0>>,
                  <<10, 10>>, <<50, 50>>,
                  <<0, -70>>, <<0, -5>>, <<20, 60>> >>,
     trks |-> << Trk(<<1, 2>>), Trk(<<3, 4>>), Trk(<<5, 6, 7>>) >>,
     calls |-> MaxOps]

\* Two bent tracks that point at each other at both ends: the first starts near
\* the origin and ends near (10, 0), the second starts near (10, 0) and ends near
\* the origin.
SceneTwice ==
    [nodes |-> << <<10, 10>>, <<50, 50>>, <<90, 10>>,
                  <<90, -10>>, <<50, -50>>, <<10, -10>> >>,
     trks |-> << Trk(<<1, 2, 3>>), Trk(<<4, 5, 6>>) >>,
     calls |-> MaxOpsTwice]

Scenes == {SceneEnds, SceneThrough, SceneParallel, ScenePair, SceneBent}

----------------------------------------------------------------------------
(* The state machine: a caller making calls on the candidates *)

\* a candidate as constructed: empty, at the origin
NewCandidate ==
    [assigned |-> <<>>, center |-> Origin, err |-> Origin, mse |-> 0, mse2D |-> 0,
     joined |-> FALSE]

NoJoin ==
    [vtx |-> 0, nOK |-> 0, noLoops |-> TRUE, tuneOK |-> TRUE, branches |-> {},
     removed |-> {}, how |-> <<>>, asg |-> <<>>, old |-> {}, at |-> Origin,
     moved |-> [tracks |-> <<>>, src |-> <<>>]]

\* no JoinTracks call made on the candidate yet
NotCalled == [path |-> "none", ok |-> FALSE]

NoCall == [op |-> "none", c |-> 0, arg |-> 0, ok |-> FALSE, path |-> "none", join |-> NoJoin]

\* the state after the candidates were constructed, for the scenes given
InitOf(scenes) ==
    /\ \E sc \in scenes :
          /\ nodes = sc.nodes
          /\ trks = sc.trks
          /\ src = Vec([i \in 1..Len(sc.trks) |-> i])
          /\ ops = sc.calls
    /\ tracks = <<>>
    /\ cand = Vec([c \in Cands |-> NewCandidate])
    /\ last = NoCall
    /\ added = Vec([c \in Cands |-> {}])
    /\ surgery = Vec([c \in Cands |-> FALSE])
    /\ first = Vec([c \in Cands |-> NotCalled])

Init == InitOf(Scenes)

\* every assigned track is there and has the segment its index names: the calls
\* below read both
Readable(G, asg) ==
    \A i \in DOMAIN asg :
        /\ asg[i][1] \in AliveTrks(G)
        /\ asg[i][2] + 2 <= NNodes(G, asg[i][1])

Add(c, trk) ==
    /\ ops > 0
    /\ trk \in AliveTrks(Graph)
    /\ Readable(Graph, cand[c].assigned)
    /\ \E r \in {AddCall(Graph, cand[c], trk)} :
           /\ cand' = [cand EXCEPT ![c] = r.c]
           /\ last' = [op |-> "Add", c |-> c, arg |-> trk, ok |-> r.ok, path |-> r.path,
                       join |-> NoJoin]
           /\ added' = IF r.ok THEN [added EXCEPT ![c] = @ \cup {trk}] ELSE added
    /\ ops' = ops - 1
    /\ UNCHANGED <<nodes, trks, src, tracks, surgery, first>>

MergeWith(c, o) ==
    /\ ops > 0
    /\ c # o
    /\ Readable(Graph, cand[c].assigned)
    /\ Readable(Graph, cand[o].assigned)
    /\ \E r \in {MergeWithCall(Graph, cand[c], cand[o])} :
           /\ cand' = [cand EXCEPT ![c] = r.c]
           /\ last' = [op |-> "MergeWith", c |-> c, arg |-> o, ok |-> r.ok,
                       path |-> r.path, join |-> NoJoin]
    /\ ops' = ops - 1
    /\ UNCHANGED <<nodes, trks, src, tracks, added, surgery, first>>

ComputeFit(c) ==
    /\ ops > 0
    /\ Readable(Graph, cand[c].assigned)
    /\ \E fit \in {Compute(Graph, cand[c].assigned)} :
           /\ cand' = [cand EXCEPT ![c].center = fit.center, ![c].err = fit.err]
           /\ last' = [op |-> "Compute", c |-> c, arg |-> fit.mse, ok |-> TRUE,
                       path |-> "compute", join |-> NoJoin]
    /\ ops' = ops - 1
    /\ UNCHANGED <<nodes, trks, src, tracks, added, surgery, first>>

JoinTracks(c, g) ==
    /\ ops > 0
    /\ cand[c].joined \/ Readable(Graph, cand[c].assigned)
    /\ \E r \in {JoinTracksCall(Graph, cand[c], tracks, src, g)} :
           /\ cand' = [cand EXCEPT ![c] = r.c]
           /\ nodes' = r.G.nodes
           /\ trks' = r.G.trks
           /\ tracks' = r.tracks
           /\ src' = r.src
           /\ last' = [op |-> "JoinTracks", c |-> c,
                       arg |-> IF r.path \in {"done", "tune"} THEN g.value ELSE 0,
                       ok |-> r.ok,
                       path |-> r.path,
                       join |-> [vtx |-> r.vtx, nOK |-> r.nOK, noLoops |-> r.noLoops,
                                 tuneOK |-> r.tuneOK, branches |-> r.branches,
                                 removed |-> r.removed, how |-> r.how, asg |-> r.asg,
                                 old |-> r.old, at |-> r.at, moved |-> r.moved]]
           /\ surgery' = [surgery EXCEPT ![c] = @ \/ r.vtx # 0]
           /\ first' = IF first[c] = NotCalled
                       THEN [first EXCEPT ![c] = [path |-> r.path, ok |-> r.ok]]
                       ELSE first
    /\ ops' = ops - 1
    /\ UNCHANGED added

\* what TuneFullTree may do: diverge, or converge with the vertex node left in
\* place or moved
TuneValues ==
    {[value |-> kTuneDiverged, dx |-> 0], [value |-> 0, dx |-> 0], [value |-> 0, dx |-> MaxTuneShift]}

Next ==
    \/ \E c \in Cands : \E trk \in DOMAIN trks : Add(c, trk)
    \/ MergeWith(1, 2)
    \/ ComputeFit(1)
    \/ \E c \in Cands : \E g \in TuneValues : JoinTracks(c, g)

Spec == Init /\ [][Next]_vars

\* the minimum lengths MaxAngle is asked with
MinLengths == {0, MaxMinLength}

MaxAngle(c, minLength) ==
    /\ ops > 0
    /\ Readable(Graph, cand[c].assigned)
    /\ \E r \in MaxAngleCall(Graph, cand[c].assigned, minLength) :
           /\ last' = [op |-> "MaxAngle", c |-> c, arg |-> minLength, ok |-> TRUE,
                       path |-> r.path, join |-> NoJoin, ref |-> r.ref,
                       compared |-> r.compared, angle |-> r.angle]
           /\ ops' = IF r.path = "crash" THEN 0 ELSE ops - 1
    /\ UNCHANGED <<nodes, trks, src, tracks, cand, added, surgery, first>>

\* a caller that builds candidates and asks for their opening angle
NextAngle ==
    \/ \E c \in Cands : \E trk \in DOMAIN trks : Add(c, trk)
    \/ \E c \in Cands : \E minLength \in MinLengths : MaxAngle(c, minLength)

SpecAngle == Init /\ [][NextAngle]_vars

InitTwice == InitOf({SceneTwice})

\* a caller that builds two candidates and commits both
NextTwice ==
    \/ \E c \in Cands : \E trk \in DOMAIN trks : Add(c, trk)
    \/ \E c \in Cands : \E g \in TuneValues : JoinTracks(c, g)

SpecTwice == InitTwice /\ [][NextTwice]_vars

----------------------------------------------------------------------------
(* Properties *)

\* the candidate the last call was made on
Callee == last.c

\* no JoinTracks call has been made yet
NoJoinYet == \A c \in Cands : ~cand[c].joined

NoDuplicates(asg) == \A i \in DOMAIN asg : \A j \in DOMAIN asg : asg[i][1] = asg[j][1] => i = j

\* C1: a JoinTracks call on a candidate that was committed before returns false
\* through the repeated-commit exit and changes neither the candidate, nor the
\* track graph, nor the tracks and src collections.
C1_RepeatedJoinChangesNothing ==
    [][(last'.op = "JoinTracks" /\ cand[last'.c].joined)
          => /\ ~last'.ok
             /\ last'.path = "joined"
             /\ cand' = cand
             /\ nodes' = nodes /\ trks' = trks
             /\ tracks' = tracks /\ src' = src]_vars

\* a repeated JoinTracks on a candidate whose first call rewired the graph
C1_Witness ==
    /\ last.op = "JoinTracks" /\ last.path = "joined"
    /\ cand[Callee].assigned = <<>>
    /\ tracks # <<>>

\* C2: a MergeWith call that returns false leaves the candidate's assigned set
\* (entries and order), mse and mse2D as they were before the call.
C2_RejectedMergeRestores ==
    [][(last'.op = "MergeWith" /\ ~last'.ok)
          => /\ cand'[last'.c].assigned = cand[last'.c].assigned
             /\ cand'[last'.c].mse = cand[last'.c].mse
             /\ cand'[last'.c].mse2D = cand[last'.c].mse2D]_vars

\* C3: an Add call that returns false leaves the candidate as it was before the
\* call: assigned set, segment indexes, center, error, mse and mse2D.
C3_RejectedAddRestores ==
    [][(last'.op = "Add" /\ ~last'.ok) => cand'[last'.c] = cand[last'.c]]_vars

\* C4: on a candidate on which JoinTracks has not been called, every track whose
\* Add returned true is assigned (Has is true), whatever Add and MergeWith calls,
\* accepted or rejected, came after.
C4_AddedStaysAssigned ==
    \A c \in Cands :
        ~cand[c].joined => \A t \in added[c] : Has(cand[c].assigned, t)

\* a rejected merge has just rolled back a candidate holding two added tracks
C4_Witness ==
    /\ last.op = "MergeWith" /\ last.path = "highmse"
    /\ ~cand[Callee].joined
    /\ Cardinality(added[Callee]) >= 2

\* C5: as long as no JoinTracks call has been made, no candidate holds a track
\* twice and no candidate holds two tracks whose roots are attached to each other
\* (HasLoops is false).
C5_NoDuplicateNoLoops ==
    NoJoinYet =>
        \A c \in Cands :
            /\ NoDuplicates(cand[c].assigned)
            /\ ~HasLoops(Graph, cand[c].assigned)

\* a merge has been accepted and left three tracks or more, in a graph in which
\* two tracks are attached to each other
C5_Witness ==
    /\ NoJoinYet
    /\ last.op = "MergeWith" /\ last.ok
    /\ Len(cand[Callee].assigned) >= 3
    /\ \E t \in AliveTrks(Graph) : \E u \in AliveTrks(Graph) :
          t # u /\ IsAttachedTo(Graph, GetRoot(Graph, t), GetRoot(Graph, u))

Joined == last.join

\* the call made last got past the guard of JoinTracks and failed
FailedJoin(paths) == last.op = "JoinTracks" /\ ~last.ok /\ last.path \in paths

PrevSegments(G, v) ==
    {<<t, i>> \in AliveTrks(G) \X (1..Len(G.nodes)) :
        i >= 2 /\ i <= NNodes(G, t) /\ G.trks[t].n[i] = v}

\* the nodes of the tracks in ts
NodesOf(G, ts) == UNION {Range(G.trks[t].n) : t \in ts}

C8_TrueOnlyWhenCommitted ==
    (last.op = "JoinTracks" /\ last.ok)
        => /\ Joined.noLoops /\ Joined.nOK >= 2 /\ last.arg > kTuneDiverged
           /\ cand[Callee].assigned = <<>>
           /\ cand[Callee].center = Point3D(Graph, Joined.vtx)
           /\ cand[Callee].mse = 0 /\ cand[Callee].mse2D = 0

\* C8, amended: the same, with center the point the final vertex node had when
\* the vertex was committed, before the tuning of the tree ran.
C8_CenterFromBeforeTuning ==
    (last.op = "JoinTracks" /\ last.ok)
        => /\ Joined.noLoops /\ Joined.nOK >= 2 /\ last.arg > kTuneDiverged
           /\ cand[Callee].assigned = <<>>
           /\ cand[Callee].center = Joined.at
           /\ cand[Callee].mse = 0 /\ cand[Callee].mse2D = 0

\* JoinTracks returns true and the tuning has moved the vertex node
C8_Witness ==
    /\ last.op = "JoinTracks" /\ last.ok
    /\ Joined.nOK >= 2
    /\ Point3D(Graph, Joined.vtx) # Joined.at

\* the fitted values of a candidate
Fitted(c) == <<c.center, c.err, c.mse, c.mse2D>>

\* C9: once JoinTracks has rewired the graph for a candidate, no later Add,
\* MergeWith or Compute on that candidate changes its assigned set or its
\* fitted values.
C9_JoinedIsTerminal ==
    [][(surgery[last'.c] /\ last'.op \in {"Add", "MergeWith", "Compute"})
          => /\ cand'[last'.c].assigned = cand[last'.c].assigned
             /\ Fitted(cand'[last'.c]) = Fitted(cand[last'.c])]_vars

\* center, err, mse and mse2D of c are what Compute and ComputeMse2D give for
\* its assigned set
Derived(G, c) ==
    LET fit == Compute(G, c.assigned)
    IN  Fitted(c) = <<fit.center, fit.err, fit.mse, ComputeMse2D(G, c.assigned, fit.center)>>

\* the call recorded in l is an Add or MergeWith that put entries into the
\* assigned set, for good or tentatively
Appended(l) ==
    \/ l.op = "Add" /\ l.path \in {"first", "second", "third"}
    \/ l.op = "MergeWith" /\ l.path \in {"merged", "highmse"}

\* C10: after every Add or MergeWith call that changed the assigned set, or
\* changed it tentatively (accepted or undone), center, err, mse and mse2D are
\* the values the solver gives for the resulting assigned set.
C10_AlwaysRecomputed ==
    [][(/\ last'.op \in {"Add", "MergeWith"}
        /\ ~surgery[last'.c]
        /\ Appended(last') \/ cand'[last'.c].assigned # cand[last'.c].assigned)
          => Derived([nodes |-> nodes', trks |-> trks'], cand'[last'.c])]_vars

\* the centers of the two candidates of a MergeWith call are more than 10.0 apart
FarApart(c, other) == Dist2(c.center, other.center) > kMergeMaxDist * kMergeMaxDist

\* C11: a MergeWith call made while the centers of the two candidates are more
\* than 10.0 apart returns false through the distance gate, before any
\* attachment check, and leaves the assigned set of both candidates as it was;
\* whatever the outcome of a MergeWith call, the other candidate is unchanged.
C11_FarMergeRejected ==
    [][last'.op = "MergeWith"
          => /\ cand'[last'.arg] = cand[last'.arg]
             /\ FarApart(cand[last'.c], cand[last'.arg])
                    => /\ ~last'.ok
                       /\ last'.path = "far"
                       /\ cand'[last'.c].assigned = cand[last'.c].assigned]_vars

\* a merge of two candidates that both hold tracks, with centers too far apart
C11_Witness ==
    /\ last.op = "MergeWith" /\ last.path = "far"
    /\ FarApart(cand[Callee], cand[last.arg])
    /\ cand[Callee].assigned # <<>> /\ cand[last.arg].assigned # <<>>

\* C12: an Add call on a candidate that holds two or more tracks, rejected
\* because no eligible segment of the new track comes closer to the fit than
\* kMaxDistToTrack, leaves the candidate as it was: the assigned set with its
\* segment indexes, center, err, mse and mse2D.
C12_RejectedThirdKeepsFit ==
    [][(last'.op = "Add" /\ last'.path = "third" /\ ~last'.ok)
          => cand'[last'.c] = cand[last'.c]]_vars

\* the entries of the sequence s that are in the set S, in the order of s
Only(s, S) == SelectSeq(s, LAMBDA t : t \in S)

\* C13: the first step of a JoinTracks call that gets past the guard moves the
\* assigned tracks found in src to tracks: afterwards no assigned track is in
\* src, every assigned track that was in src is in tracks, src is what it was
\* without the assigned tracks, in the same order, tracks keeps what it held,
\* and no track is in both collections or in neither.
C13_AssignedMovedToTracks ==
    [][(last'.op = "JoinTracks" /\ last'.path # "joined")
          => LET asg == AssignedTrks(last'.join.asg)
                 mv == last'.join.moved
             IN  /\ Range(mv.src) \cap asg = {}
                 /\ asg \cap Range(src) \subseteq Range(mv.tracks)
                 /\ mv.src = Only(src, Range(src) \ asg)
                 /\ SubSeq(mv.tracks, 1, Len(tracks)) = tracks
                 /\ Range(mv.tracks) \cap Range(mv.src) = {}
                 /\ Range(mv.tracks) \cup Range(mv.src) = Range(tracks) \cup Range(src)
                 /\ Len(mv.tracks) + Len(mv.src) = Len(tracks) + Len(src)]_vars

\* a JoinTracks call has moved a track out of the middle of src, to a tracks
\* collection that held a track already
C13_Witness ==
    /\ last.op = "JoinTracks" /\ last.path # "joined"
    /\ Joined.asg # <<>>
    /\ Len(Joined.moved.tracks) > Len(Joined.asg)
    /\ \E i \in DOMAIN Joined.moved.src : \E t \in AssignedTrks(Joined.asg) :
           Joined.moved.src[i] < t
    /\ \E i \in DOMAIN Joined.moved.src : \E t \in AssignedTrks(Joined.asg) :
           Joined.moved.src[i] > t

\* the fit of the assigned set asg with segment n taken for its last track
FitWith(G, asg, n) == Compute(G, SetIdx(asg, Len(asg), n))

\* the segments of the last track of asg that are long enough and give a fit
\* residual below kMaxDistToTrack squared
Eligible(G, asg) ==
    {n \in 0..LastSeg(G, asg[Len(asg)][1]) :
        /\ LongEnough(G, asg[Len(asg)][1], n)
        /\ FitWith(G, asg, n).mse < kMaxDistToTrack * kMaxDistToTrack}

\* the squared distance of the center fitted with segment n to that segment
CenterDist2(G, asg, n) ==
    SegDistance2To(FitWith(G, asg, n).center,
                   Point3D(G, NodeAt(G, asg[Len(asg)][1], n)),
                   Point3D(G, NodeAt(G, asg[Len(asg)][1], n + 1)))

\* C14: after an Add call that was accepted on a candidate holding two or more
\* tracks, the segment index stored for the new track is eligible (long enough,
\* fit residual below 16.0) and no eligible segment of the new track is closer
\* to the center fitted with it.
C14_AcceptsClosestSegment ==
    (last.op = "Add" /\ last.path = "third" /\ last.ok)
        => LET asg == cand[Callee].assigned
               n == asg[Len(asg)][2]
           IN  /\ n \in Eligible(Graph, asg)
               /\ \A k \in Eligible(Graph, asg) :
                      CenterDist2(Graph, asg, n) <= CenterDist2(Graph, asg, k)

\* the solver fails for the assigned set asg: Compute returns the sentinel
FitFails(G, asg) == Compute(G, asg).mse = kFitFailed

\* C15: no Add call that brings a candidate to two tracks or more and no
\* MergeWith call returns true for an assigned set whose fit failed.
C15_FailedFitRejected ==
    (/\ last.op \in {"Add", "MergeWith"}
     /\ last.path \in {"second", "third", "merged"}
     /\ last.ok)
        => ~FitFails(Graph, cand[Callee].assigned)

\* the 2D residual of the two-track set asg with segment m taken for the first
\* track and segment n for the second: d squared
PairMse2D(G, asg, m, n) ==
    LET Indexed(a) == ComputeMse2D(G, a, Compute(G, a).center)
    IN  Indexed(SetIdx(SetIdx(asg, 1, m), 2, n))

\* the pairs of segments, both long enough, with d below kMaxDistToTrack
ClosePairs(G, asg) ==
    {mn \in (0..LastSeg(G, asg[1][1])) \X (0..LastSeg(G, asg[2][1])) :
        /\ LongEnough(G, asg[1][1], mn[1])
        /\ LongEnough(G, asg[2][1], mn[2])
        /\ PairMse2D(G, asg, mn[1], mn[2]) < kMaxDistToTrack * kMaxDistToTrack}

\* C16: after an Add call that brought a candidate to two tracks and returned
\* true, the stored segment indexes are a pair of segments that both meet the
\* minimum length and whose 2D distance d is below kMaxDistToTrack (so there is
\* such a pair), and the stored mse2D is the d squared of that pair, with
\* square root below 4.0.
C16_SecondTrackWithinDistance ==
    (last.op = "Add" /\ last.path = "second" /\ last.ok)
        => LET asg == cand[Callee].assigned
           IN  /\ Len(asg) = 2
               /\ <<asg[1][2], asg[2][2]>> \in ClosePairs(Graph, asg)
               /\ cand[Callee].mse2D = PairMse2D(Graph, asg, asg[1][2], asg[2][2])
               /\ Sqrt(cand[Callee].mse2D) < kMaxDistToTrack

\* a second track has been accepted with a pair of segments other than the
\* first of each track, out of several pairs that are close enough
C16_Witness ==
    /\ last.op = "Add" /\ last.path = "second" /\ last.ok
    /\ cand[Callee].assigned[1][2] > 0 /\ cand[Callee].assigned[2][2] > 0
    /\ Cardinality(ClosePairs(Graph, cand[Callee].assigned)) >= 2

\* C17: after a MaxAngle call on a candidate that holds tracks, the reference
\* is an assigned track that no assigned track exceeds in length, whatever its
\* position in the assigned set, and the entries compared with it are all the
\* others longer than minLength.
C17_ReferenceIsLongest ==
    (last.op = "MaxAngle" /\ last.path = "angle")
        => LET asg == cand[Callee].assigned
           IN  /\ \A j \in DOMAIN asg :
                      TrackLength(Graph, asg[last.ref + 1][1]) >= TrackLength(Graph, asg[j][1])
               /\ last.compared =
                      {j \in 0..(Len(asg) - 1) :
                          j # last.ref /\ TrackLength(Graph, asg[j + 1][1]) > last.arg}

\* the root of trk is the root of a track of asg or attached to it in the graph
RootAttached(G, asg, trk) ==
    \E t \in AssignedTrks(asg) :
        \/ GetRoot(G, trk) = GetRoot(G, t)
        \/ IsAttachedTo(G, GetRoot(G, trk), GetRoot(G, t))

\* C18: an Add call with a track whose root is the root of an assigned track or
\* is attached to it, and so every Add call with a track that is assigned
\* already, returns false at once: the candidate, with its assigned set and
\* every other field, is as it was.
C18_AttachedTrackRejected ==
    [][(/\ last'.op = "Add"
        /\ \/ RootAttached(Graph, cand[last'.c].assigned, last'.arg)
           \/ Has(cand[last'.c].assigned, last'.arg))
          => /\ ~last'.ok
             /\ last'.path = "attached"
             /\ cand' = cand]_vars

\* an Add call was rejected for a track that is not assigned itself but starts
\* from a node of an assigned track
C18_Witness ==
    /\ last.op = "Add" /\ last.path = "attached"
    /\ ~Has(cand[Callee].assigned, last.arg)
    /\ RootAttached(Graph, cand[Callee].assigned, last.arg)

\* the entries of other whose track is not in asg, in the order of other
NewEntries(asg, other) == SelectSeq(other, LAMBDA e : ~Has(asg, e[1]))

\* C19: after a MergeWith call that returned true, the assigned set is what it
\* was before the call followed by at least one new entry, the new entries are
\* the entries of other for the tracks that were not there, with the segment
\* indexes they have in other, every track of other is assigned (Has(other)),
\* and the stored mse is below 1.0.
C19_AcceptedMergeAppends ==
    [][(last'.op = "MergeWith" /\ last'.ok)
          => LET before == cand[last'.c].assigned
                 after == cand'[last'.c].assigned
                 other == cand[last'.arg].assigned
             IN  /\ Len(after) > Len(before)
                 /\ SubSeq(after, 1, Len(before)) = before
                 /\ SubSeq(after, Len(before) + 1, Len(after)) = NewEntries(before, other)
                 /\ HasCandidate(after, other)
                 /\ cand'[last'.c].mse < kMergeMaxMse]_vars

\* a merge was accepted into a candidate that held a track, with two tracks of
\* the other candidate, one of them at a segment other than its first
C19_Witness ==
    /\ last.op = "MergeWith" /\ last.ok
    /\ Len(cand[Callee].assigned) >= Len(cand[last.arg].assigned) + 1
    /\ Len(cand[last.arg].assigned) >= 2
    /\ \E i \in DOMAIN cand[last.arg].assigned : cand[last.arg].assigned[i][2] > 0

\* C20: after a JoinTracks call, whatever its outcome, no track the call has
\* deleted is in the assigned set of the candidate.
C20_NoDeletedTrackAssigned ==
    last.op = "JoinTracks"
        => \A t \in AssignedTrks(cand[Callee].assigned) : t \notin Joined.removed

\* the first JoinTracks call on candidate c was made and returned false
FirstJoinFailed(c) == first[c] # NotCalled /\ ~first[c].ok

\* C21: every JoinTracks call leaves the committed flag of its candidate set,
\* whatever the call returns; and on a candidate whose first JoinTracks call
\* returned false every later JoinTracks call returns false and changes neither
\* the candidate, nor the track graph, nor the tracks and src collections.
C21_FailedCommitNeverRetried ==
    [][last'.op = "JoinTracks"
          => /\ cand'[last'.c].joined
             /\ FirstJoinFailed(last'.c)
                   => /\ ~last'.ok
                      /\ cand' = cand
                      /\ nodes' = nodes /\ trks' = trks
                      /\ tracks' = tracks /\ src' = src]_vars

\* a second JoinTracks call on a candidate whose first call found a loop and
\* returned false with its tracks still assigned
C21_Witness ==
    /\ last.op = "JoinTracks" /\ last.path = "joined"
    /\ first[Callee].path = "loops" /\ ~first[Callee].ok
    /\ cand[Callee].assigned # <<>>

\* the loop of JoinTracks after its first turn, on candidate c in this state
FirstTurn(c) ==
    JoinOne([G |-> Graph,
             tracks |-> MoveAssigned(cand[c].assigned, 1, tracks, src).tracks,
             vtx |-> 0, inner |-> FALSE, nOK |-> 0, how |-> <<>>, old |-> {}],
            cand[c].assigned, cand[c].center, 0)

\* C22: on a candidate not committed before, JoinTracks returns false when
\* fewer than two tracks are assigned; the first track processed sets the
\* vertex node, brings the success count to exactly 1 and is not split; and
\* when JoinTracks returns true some later assigned track was joined and holds
\* the vertex node.
C22_CommitNeedsSecondTrack ==
    [][(last'.op = "JoinTracks" /\ ~cand[last'.c].joined)
          => /\ Len(cand[last'.c].assigned) < 2 => ~last'.ok
             /\ cand[last'.c].assigned # <<>>
                   => /\ FirstTurn(last'.c).nOK = 1
                      /\ FirstTurn(last'.c).vtx # 0
                      /\ FirstTurn(last'.c).how \in {<<"front">>, <<"back">>, <<"inner">>}
                      /\ last'.join.how[1] = FirstTurn(last'.c).how[1]
             /\ last'.ok
                   => \E i \in 2..Len(cand[last'.c].assigned) :
                          /\ last'.join.how[i] # "failed"
                          /\ last'.join.vtx \in Range(trks'[cand[last'.c].assigned[i][1]].n)]_vars

\* JoinTracks called on a candidate of one track, with the center inside the
\* track: the track becomes the inner center, counts once, and the call
\* returns false
C22_Witness ==
    /\ last.op = "JoinTracks" /\ ~last.ok
    /\ Len(Joined.asg) = 1
    /\ Joined.how = <<"inner">>
    /\ Joined.nOK = 1

====
